---- MODULE Spec2Model ----
(***************************************************************************)
(* Model of ssd/main/views/search.py: the three search views of the SSD    *)
(* dashboard (search, rsearch, rsearch_recent), the store they query       *)
(* (Incident, Service_Issue, Report) and the per-thread current timezone   *)
(* that django.utils.timezone.activate() sets.                             *)
(*                                                                         *)
(* Time is counted in whole hours.  A naive datetime is the number of      *)
(* hours since the naive epoch, an aware datetime the number of hours      *)
(* since the UTC epoch.  Text is a sequence of characters.  An optional    *)
(* value (a nullable column, a form field that did not parse) is a         *)
(* sequence of length 0 or 1.                                              *)
(***************************************************************************)
EXTENDS Integers, Sequences, FiniteSets, TLC

VARIABLES
    Incident,       \* the Incident table: id -> [date, detail, closed]
    Service_Issue,  \* the Service_Issue table: set of [id, incident_id, service_id]
    Report,         \* the Report table: id -> [date, description]
    current_timezone, \* the thread's current timezone (django.utils.timezone)
    request,        \* the request handled last
    response        \* what the view did with it

vars == <<Incident, Service_Issue, Report, current_timezone, request, response>>

----------------------------------------------------------------------------
(* Bounds of the model *)

MaxLinks == 2       \* an incident has at most MaxLinks Service_Issue rows
MaxReports == 3     \* InitReports: up to MaxReports reports with free columns
MaxRecent == 6      \* InitRecent: up to MaxRecent reports

Dates == {0}
Hours == {0, 1}
HoursPerDay == Cardinality(Hours)

Null == <<>>
None == "None"

IncidentIds == {1, 2}
IncidentDates == {1, 2}
ClosedStamps == {Null, <<3>>}
Details == {<<"b">>, <<"b", "a">>}
Texts == {<<>>, <<"a">>}
Statuses == {"", "open", "closed"}

----------------------------------------------------------------------------
(* Timezones: pytz and django.utils.timezone *)

TIME_ZONE == "UTC"

\* The zone names pytz knows, with their offsets from UTC in hours.
KnownZones == {"UTC", "Etc/GMT+1"}

utcoffset(zone) == IF zone = "Etc/GMT+1" THEN 0 - 1 ELSE 0

\* The values of the 'timezone' cookie: absent, a known zone, an unknown one.
CookieValues == {None, "Etc/GMT+1", "Mars/Olympus"}

\* A lookup that accepts every name.
pytz_timezone_lenient(zone) == TRUE

\* pytz.timezone(zone) returns a tzinfo for a known name and raises
\* UnknownTimeZoneError for any other.
pytz_timezone_ok(zone) == zone \in KnownZones

\* tz.localize(naive): the aware datetime whose wall clock in tz reads naive.
localize(zone, naive) == naive - utcoffset(zone)

\* datetime.datetime.combine(date, time)
combine(date, time) == date * HoursPerDay + time

----------------------------------------------------------------------------
(* Requests and the search form *)

\* request.POST of a request that carries no form data
EmptyPost ==
    [s_date |-> Null, s_time |-> Null, e_date |-> Null, e_time |-> Null,
     text |-> <<>>, status |-> ""]

\* The form data a POST may carry.  A date or time that parsed is <<value>>;
\* a missing or malformed one is Null.
PostData ==
    [s_date : {<<d>> : d \in Dates} \cup {Null},
     s_time : {<<h>> : h \in Hours},
     e_date : {<<d>> : d \in Dates},
     e_time : {<<h>> : h \in Hours},
     text : Texts,
     status : Statuses]

Requests ==
    [method : {"GET"}, POST : {EmptyPost}, COOKIES : CookieValues]
        \cup [method : {"POST"}, POST : PostData, COOKIES : CookieValues]

NoRequest == [method |-> None, POST |-> EmptyPost, COOKIES |-> None]

\* SearchForm(data): a bound form; its errors are the fields that did not parse.
SearchForm(data) ==
    [is_bound |-> TRUE,
     data |-> data,
     errors |-> {f \in {"s_date", "s_time", "e_date", "e_time"} : data[f] = Null}]

\* SearchForm(): a blank, unbound form.
BlankForm == [is_bound |-> FALSE, data |-> EmptyPost, errors |-> {}]

is_valid(form) == form.is_bound /\ form.errors = {}

\* The cookie is never consulted.
set_timezone_ignores_cookie(cookie) == TIME_ZONE

\* request.COOKIES.get('timezone') == None ? settings.TIME_ZONE : the cookie
set_timezone(cookie) == IF cookie = None THEN TIME_ZONE ELSE cookie

----------------------------------------------------------------------------
(* The ORM queries *)

Max(S) == CHOOSE x \in S : \A y \in S : y <= x
Min(S) == CHOOSE x \in S : \A y \in S : x <= y

\* A lower bound only (date__gte).
date__range_no_end(d, start, end) == start <= d

\* field__range=[start, end]: SQL BETWEEN, both ends included
date__range(d, start, end) == start <= d /\ d <= end

\* field__contains=text: text occurs in the field as a substring
contains(field, text) ==
    \E k \in 0..(Len(field) - Len(text)) :
        SubSeq(field, k + 1, k + Len(text)) = text

\* incident__closed__isnull=flag
closed__isnull(inc, flag) == (inc.closed = Null) = flag

\* 'open' and 'closed' exchanged.
isnull_arg_swapped(status) == status = "closed"

\* The value search() passes as incident__closed__isnull: True for 'open',
\* False for 'closed'; any other non-empty status is passed on as it is, and
\* a non-empty string is true.
isnull_arg(status) == status # "closed"

\* The same filter on the Incident table itself, without the join.
incident_filter_unjoined(status, start, end, text) ==
    {[id |-> i, incident_id |-> i, service_id |-> 0] :
        i \in {j \in IncidentIds :
                  /\ status = "" \/ (Incident[j].closed = Null) = (status # "closed")
                  /\ start <= Incident[j].date /\ Incident[j].date <= end
                  /\ \E k \in 0..(Len(Incident[j].detail) - Len(text)) :
                         SubSeq(Incident[j].detail, k + 1, k + Len(text)) = text}}

\* Service_Issue.objects.filter(...): the Service_Issue rows whose incident
\* passes the filter.  The closed filter is applied unless status is ''.
incident_filter(status, start, end, text) ==
    {si \in Service_Issue :
        LET inc == Incident[si.incident_id] IN
            /\ status = "" \/ closed__isnull(inc, isnull_arg(status))
            /\ date__range(inc.date, start, end)
            /\ contains(inc.detail, text)}

\* .values('incident__date', 'incident_id', 'incident__closed',
\* 'incident__detail'): one row per selected Service_Issue row.  The rows are
\* a bag: each is paired with the Service_Issue row it was selected from.
incident_values(si) ==
    [incident__date |-> Incident[si.incident_id].date,
     incident_id |-> si.incident_id,
     incident__closed |-> Incident[si.incident_id].closed,
     incident__detail |-> Incident[si.incident_id].detail]

select_values(selected) == {<<si.id, incident_values(si)>> : si \in selected}

\* No .distinct(): every selected row is kept.
distinct_missing(rows) == rows

\* .distinct(): one row of every group of equal rows is kept.
distinct(rows) ==
    {r \in rows : r[1] = Min({q[1] : q \in {q \in rows : q[2] = r[2]}})}

\* .order_by('-incident__date'): every order of the rows the database may
\* return; rows of equal date come in any order.
order_by_date_desc(rows) ==
    LET n == Cardinality(rows)
        orders == {s \in [1..n -> rows] :
                      /\ \A i, j \in 1..n : i # j => s[i] # s[j]
                      /\ \A i, j \in 1..n :
                             i < j => s[i][2].incident__date >= s[j][2].incident__date}
    IN {[i \in 1..n |-> s[i][2]] : s \in orders}

\* The text filter left out.
report_filter_no_text(start, end, text) ==
    {id \in DOMAIN Report : start <= Report[id].date /\ Report[id].date <= end}

\* Report.objects.filter(date__range=[start,end], description__contains=text)
report_filter(start, end, text) ==
    {id \in DOMAIN Report :
        /\ date__range(Report[id].date, start, end)
        /\ contains(Report[id].description, text)}

\* .values('id', 'date', ..., 'description', ...): the columns of one report;
\* name, email, additional and the screenshots are read and passed through.
report_values(id) ==
    [id |-> id, date |-> Report[id].date, description |-> Report[id].description]

\* .order_by('-id')
RECURSIVE order_by_id_desc(_)
order_by_id_desc(ids) ==
    IF ids = {} THEN <<>>
    ELSE <<report_values(Max(ids))>> \o order_by_id_desc(ids \ {Max(ids)})

RecentLimit == 5

\* No slice: the whole table.
slice_missing(rows) == rows

\* queryset[:5]
slice(rows) ==
    SubSeq(rows, 1, IF Len(rows) < RecentLimit THEN Len(rows) ELSE RecentLimit)

----------------------------------------------------------------------------
(* The views.  Each is the set of outcomes of one call: the response and the
   thread's current timezone when the call ends. *)

NoResponse ==
    [view |-> None, raised |-> None, template |-> None, form |-> <<>>,
     queried |-> FALSE, results |-> <<>>, tz |-> None, start |-> Null,
     end |-> Null, current_tz |-> None]

\* An invalid or blank form ends in an error instead of the form page.
form_page_raises(view, template, form, active) ==
    [response |->
        [NoResponse EXCEPT !.view = view, !.raised = "ValidationError",
                           !.form = <<form>>],
     active |-> active]

\* render_to_response(template, {'form': form}): the input form page, rendered
\* under the thread's current timezone; no query is made.
form_page(view, template, form, active) ==
    [response |->
        [NoResponse EXCEPT !.view = view, !.template = template,
                           !.form = <<form>>,
                           !.current_tz = active],
     active |-> active]

\* render_to_response(template, {'results': results, 'form': form}) after
\* jtz.activate(zone)
results_page(view, template, form, results, tz, start, end, zone) ==
    [response |->
        [NoResponse EXCEPT !.view = view, !.template = template, !.form = form,
                           !.queried = TRUE, !.results = results, !.tz = tz,
                           !.start = <<start>>, !.end = <<end>>,
                           !.current_tz = zone],
     active |-> zone]

\* pytz.UnknownTimeZoneError leaves the view: nothing is rendered and the
\* thread's current timezone is as it was.
unhandled(view, form, active) ==
    [response |->
        [NoResponse EXCEPT !.view = view, !.raised = "UnknownTimeZoneError",
                           !.form = form],
     active |-> active]

\* The incident search query of search(), lines 72-95.
search_results(status, start, end, text) ==
    order_by_date_desc(distinct(select_values(incident_filter(status, start, end, text))))

\* The report search query of rsearch(), lines 166-175.
rsearch_results(start, end, text) == order_by_id_desc(report_filter(start, end, text))

\* The recent reports query of rsearch_recent(), lines 225-233.
recent_results == slice(order_by_id_desc(DOMAIN Report))

search_form_template == "search/search.html"

search_view(req, active) ==
    IF req.method = "POST"
    THEN LET form == SearchForm(req.POST) IN
         IF is_valid(form)
         THEN LET cd == form.data
                  zone == set_timezone(req.COOKIES)
              IN  IF ~pytz_timezone_ok(zone)
                  THEN {unhandled("search", <<form>>, active)}
                  ELSE LET start == localize(zone, combine(cd.s_date[1], cd.s_time[1]))
                           end == localize(zone, combine(cd.e_date[1], cd.e_time[1]))
                       IN  {results_page("search", "search/search_results.html",
                                         <<form>>, r, zone, start, end, zone) :
                                r \in search_results(cd.status, start, end, cd.text)}
         ELSE {form_page("search", search_form_template, form, active)}
    ELSE {form_page("search", search_form_template, BlankForm, active)}

rsearch_view(req, active) ==
    IF req.method = "POST"
    THEN LET form == SearchForm(req.POST) IN
         IF is_valid(form)
         THEN LET cd == form.data
                  zone == set_timezone(req.COOKIES)
              IN  IF ~pytz_timezone_ok(zone)
                  THEN {unhandled("rsearch", <<form>>, active)}
                  ELSE LET start == localize(zone, combine(cd.s_date[1], cd.s_time[1]))
                           end == localize(zone, combine(cd.e_date[1], cd.e_time[1]))
                       IN  {results_page("rsearch", "search/rsearch_results.html",
                                         <<form>>, rsearch_results(start, end, cd.text),
                                         zone, start, end, zone)}
         ELSE {form_page("rsearch", "search/rsearch.html", form, active)}
    ELSE {form_page("rsearch", "search/rsearch.html", BlankForm, active)}

rsearch_recent_view(req, active) ==
    LET zone == set_timezone(req.COOKIES) IN
    IF ~pytz_timezone_ok(zone)
    THEN {unhandled("rsearch_recent", <<>>, active)}
    ELSE {[response |->
              [NoResponse EXCEPT !.view = "rsearch_recent",
                                 !.template = "search/rsearch_results.html",
                                 !.queried = TRUE, !.results = recent_results,
                                 !.current_tz = zone],
           active |-> zone]}

----------------------------------------------------------------------------
(* The state machine: one worker thread that takes a request, runs a view on
   it and hands the response back. *)

Idle == request = NoRequest

store == <<Incident, Service_Issue, Report>>

Handle(req, outcomes) ==
    /\ Idle
    /\ \E o \in outcomes :
          /\ response' = o.response
          /\ current_timezone' = o.active
    /\ request' = req
    /\ UNCHANGED store

search == \E req \in Requests : Handle(req, search_view(req, current_timezone))

rsearch == \E req \in Requests : Handle(req, rsearch_view(req, current_timezone))

rsearch_recent == \E req \in Requests : Handle(req, rsearch_recent_view(req, current_timezone))

\* The response (or the error) leaves the view; the thread, with whatever
\* timezone it has activated, is free for the next request.
Return ==
    /\ ~Idle
    /\ request' = NoRequest
    /\ response' = NoResponse
    /\ UNCHANGED <<store, current_timezone>>

Next == search \/ rsearch \/ rsearch_recent \/ Return

\* The Service_Issue rows of a store in which incident i has links[i] rows.
ServiceIssues(links) ==
    {[id |-> (p[1] - 1) * MaxLinks + p[2], incident_id |-> p[1], service_id |-> p[2]] :
        p \in {q \in IncidentIds \X (1..MaxLinks) : q[2] <= links[q[1]]}}

IncidentRows == [date : IncidentDates, detail : Details, closed : ClosedStamps]
ReportRows == [date : IncidentDates, description : Details]

FixedIncident == [i \in IncidentIds |-> [date |-> i, detail |-> <<"b", "a">>, closed |-> Null]]
FixedReport == [id \in 1..2 |-> [date |-> id, description |-> <<"b", "a">>]]

\* No view has activated a timezone yet: the current timezone is the default.
InitThread ==
    /\ current_timezone = TIME_ZONE
    /\ request = NoRequest
    /\ response = NoResponse

\* Any two incidents, the first linked to up to MaxLinks services and the
\* second to at most one; a fixed report table.
Init ==
    /\ Incident \in [IncidentIds -> IncidentRows]
    /\ \E n \in 0..MaxLinks, m \in 0..1 : Service_Issue = ServiceIssues(<<n, m>>)
    /\ Report = FixedReport
    /\ InitThread

\* Any reports, up to MaxReports of them; a fixed incident table.
InitReports ==
    /\ Incident = FixedIncident
    /\ Service_Issue = ServiceIssues(<<1, 1>>)
    /\ \E n \in 0..MaxReports : Report \in [1..n -> ReportRows]
    /\ InitThread

\* Up to MaxRecent reports.
InitRecent ==
    /\ Incident = FixedIncident
    /\ Service_Issue = ServiceIssues(<<1, 1>>)
    /\ \E n \in 0..MaxRecent :
          Report = [id \in 1..n |->
                       [date |-> 1 + (id % 2),
                        description |-> IF id % 3 = 0 THEN <<"b">> ELSE <<"b", "a">>]]
    /\ InitThread

Spec == Init /\ [][Next]_vars
SpecReports == InitReports /\ [][Next]_vars
SpecRecent == InitRecent /\ [][Next]_vars

----------------------------------------------------------------------------
(* What the properties below speak of, read off the request, the response
   and the store *)

SearchResultsTemplate == "search/search_results.html"
ReportResultsTemplate == "search/rsearch_results.html"

\* The form template of a view
FormTemplateOf(view) == IF view = "search" THEN "search/search.html" ELSE "search/rsearch.html"

\* The request is a POST whose four date and time fields parsed.
ValidPost ==
    /\ request.method = "POST"
    /\ \A f \in {"s_date", "s_time", "e_date", "e_time"} : request.POST[f] # Null

\* The timezone of the request: its cookie, or the server default without one.
RequestZone == IF request.COOKIES = None THEN "UTC" ELSE request.COOKIES

ZoneIsKnown == RequestZone \in {"UTC", "Etc/GMT+1"}

\* Hours a zone's wall clock is behind UTC
HoursBehindUTC(zone) == IF zone = "Etc/GMT+1" THEN 1 ELSE 0

\* The submitted start and end, localized to the request's timezone
SubmittedStart ==
    request.POST.s_date[1] * HoursPerDay + request.POST.s_time[1] + HoursBehindUTC(RequestZone)
SubmittedEnd ==
    request.POST.e_date[1] * HoursPerDay + request.POST.e_time[1] + HoursBehindUTC(RequestZone)

\* text occurs in s
Occurs(text, s) ==
    \E at \in 1..(Len(s) + 1) :
        /\ at + Len(text) - 1 <= Len(s)
        /\ \A k \in 1..Len(text) : s[at + k - 1] = text[k]

Linked(i) == \E si \in Service_Issue : si.incident_id = i

InRangeWithText(i) ==
    /\ SubmittedStart <= Incident[i].date
    /\ Incident[i].date <= SubmittedEnd
    /\ Occurs(request.POST.text, Incident[i].detail)

StatusFits(i) ==
    CASE request.POST.status = "open" -> Incident[i].closed = Null
      [] request.POST.status = "closed" -> Incident[i].closed # Null
      [] OTHER -> TRUE

Returned(i) == \E k \in DOMAIN response.results : response.results[k].incident_id = i

SearchRendered == response.view = "search" /\ response.template = SearchResultsTemplate

\* Every row of an incident search result shows the columns of its incident.
RowsAreIncidents ==
    \A k \in DOMAIN response.results :
        LET row == response.results[k] IN
            /\ row.incident_id \in IncidentIds
            /\ row.incident__date = Incident[row.incident_id].date
            /\ row.incident__closed = Incident[row.incident_id].closed
            /\ row.incident__detail = Incident[row.incident_id].detail

----------------------------------------------------------------------------
(* C1: with a valid form and empty status, every row search() returns is of
   an incident whose date d has start <= d <= end, start and end being the
   submitted date+time localized to the request's timezone; both ends are
   included, and a linked incident in the range with the text is returned
   whether or not it is closed. *)
C1_DateRangeInclusive ==
    (SearchRendered /\ request.POST.status = "") =>
        /\ RowsAreIncidents
        /\ \A k \in DOMAIN response.results :
              /\ SubmittedStart <= response.results[k].incident__date
              /\ response.results[k].incident__date <= SubmittedEnd
        /\ \A i \in IncidentIds : (Linked(i) /\ InRangeWithText(i)) => Returned(i)

\* A closed incident dated exactly at the end of the range is returned while
\* a linked incident after the end is not.
C1_Witness ==
    /\ SearchRendered /\ request.POST.status = ""
    /\ \E i \in IncidentIds :
          Returned(i) /\ Incident[i].date = SubmittedEnd /\ Incident[i].closed # Null
    /\ \E i \in IncidentIds :
          Linked(i) /\ Incident[i].date > SubmittedEnd /\ ~Returned(i)

(* C2: status 'open' returns only incidents whose closed timestamp is null,
   status 'closed' only incidents whose closed timestamp is not null, and in
   both cases every row is in the date range and contains the text. *)
C2_StatusFilter ==
    (SearchRendered /\ request.POST.status \in {"open", "closed"}) =>
        /\ RowsAreIncidents
        /\ \A k \in DOMAIN response.results :
              LET row == response.results[k] IN
                  /\ (request.POST.status = "open") => row.incident__closed = Null
                  /\ (request.POST.status = "closed") => row.incident__closed # Null
                  /\ InRangeWithText(row.incident_id)

\* An open incident is returned for 'open' while a closed one that is linked,
\* in range and has the text is left out.
C2_Witness ==
    /\ SearchRendered /\ request.POST.status = "open"
    /\ \E i \in IncidentIds : Returned(i) /\ Incident[i].closed = Null
    /\ \E i \in IncidentIds :
          Linked(i) /\ InRangeWithText(i) /\ Incident[i].closed # Null /\ ~Returned(i)

----------------------------------------------------------------------------
RecentHandled == response.view = "rsearch_recent"

StrictlyDescendingIds ==
    \A j, k \in DOMAIN response.results :
        j < k => response.results[j].id > response.results[k].id

\* The rows are reports of the table, and no report left out has a higher id
\* than one returned.
HighestIds ==
    /\ \A k \in DOMAIN response.results :
          LET row == response.results[k] IN
              /\ row.id \in DOMAIN Report
              /\ row.date = Report[row.id].date
              /\ row.description = Report[row.id].description
    /\ \A id \in DOMAIN Report :
          (\A k \in DOMAIN response.results : response.results[k].id # id) =>
              \A k \in DOMAIN response.results : response.results[k].id > id

FiveOrAll == IF Cardinality(DOMAIN Report) < 5 THEN Cardinality(DOMAIN Report) ELSE 5

(* C3 as stated: for every request, whatever its cookie, rsearch_recent
   returns exactly the five reports with the highest ids, in descending id
   order. *)
C3_AlwaysExactlyFive ==
    RecentHandled =>
        /\ response.template = ReportResultsTemplate
        /\ Len(response.results) = 5
        /\ StrictlyDescendingIds
        /\ HighestIds

(* C3 amended: when the timezone cookie is absent or names a known zone,
   rsearch_recent returns the five reports with the highest ids, or all of
   them when there are fewer than five, in descending id order, whatever the
   method and the form fields; with a cookie naming no known zone it raises
   and returns nothing. *)
C3_RecentUpToFive ==
    RecentHandled =>
        IF ZoneIsKnown
        THEN /\ response.template = ReportResultsTemplate
             /\ response.raised = None
             /\ Len(response.results) = FiveOrAll
             /\ StrictlyDescendingIds
             /\ HighestIds
        ELSE /\ response.template = None
             /\ response.raised # None
             /\ response.results = <<>>

\* A POST with form data to a table of more than five reports gets five.
C3_Witness ==
    /\ RecentHandled /\ response.template = ReportResultsTemplate
    /\ request.method = "POST" /\ request.POST.text # <<>>
    /\ Cardinality(DOMAIN Report) > 5
    /\ Len(response.results) = 5

----------------------------------------------------------------------------
FormView == response.view \in {"search", "rsearch"}

(* C4: in search and rsearch a POST whose form fails validation raises
   nothing and renders no results: it renders the view's input form template
   with the bound form and its field errors, and runs no query; a request
   that is not a POST renders the same template with a blank, unbound form. *)
C4_InvalidFormRerendered ==
    /\ (FormView /\ request.method = "POST" /\ ~ValidPost) =>
          /\ response.raised = None
          /\ response.template = FormTemplateOf(response.view)
          /\ ~response.queried /\ response.results = <<>>
          /\ Len(response.form) = 1
          /\ response.form[1].is_bound
          /\ response.form[1].data = request.POST
          /\ response.form[1].errors # {}
          /\ \A f \in response.form[1].errors : request.POST[f] = Null
    /\ (FormView /\ request.method # "POST") =>
          /\ response.raised = None
          /\ response.template = FormTemplateOf(response.view)
          /\ ~response.queried /\ response.results = <<>>
          /\ Len(response.form) = 1
          /\ ~response.form[1].is_bound
          /\ response.form[1].errors = {}

\* A POST to search with a malformed start date got the form page back.
C4_Witness ==
    /\ response.view = "search" /\ request.method = "POST"
    /\ request.POST.s_date = Null /\ request.POST.status = "open"
    /\ response.template = "search/search.html"
    /\ "s_date" \in response.form[1].errors

(* C5: the timezone a view uses is the request's 'timezone' cookie when
   there is one and the server default when there is none; search and
   rsearch localize start and end with it and activate the same zone before
   the results are rendered, and rsearch_recent activates it. *)
C5_CookieOrDefaultZone ==
    /\ (FormView /\ response.queried) =>
          /\ response.tz = RequestZone
          /\ response.start = <<SubmittedStart>>
          /\ response.end = <<SubmittedEnd>>
          /\ response.current_tz = RequestZone
          /\ current_timezone = RequestZone
    /\ (RecentHandled /\ response.queried) =>
          /\ response.current_tz = RequestZone
          /\ current_timezone = RequestZone

\* A search whose cookie names a zone one hour behind UTC: start and end are
\* one hour later than submitted and that zone is current at rendering.
C5_Witness ==
    /\ SearchRendered /\ request.COOKIES = "Etc/GMT+1"
    /\ response.start = <<request.POST.s_time[1] + 1>>
    /\ response.current_tz = "Etc/GMT+1"

----------------------------------------------------------------------------
IncidentMatches(i) == Linked(i) /\ InRangeWithText(i) /\ StatusFits(i)

(* C6: a search result holds every matching incident exactly once, however
   many Service_Issue rows link it, no two rows are equal, and the rows come
   in non-increasing order of incident date. *)
C6_DistinctOrdered ==
    SearchRendered =>
        /\ RowsAreIncidents
        /\ \A i \in IncidentIds :
              Cardinality({k \in DOMAIN response.results :
                              response.results[k].incident_id = i})
                  = IF IncidentMatches(i) THEN 1 ELSE 0
        /\ \A j, k \in DOMAIN response.results :
              /\ j # k => response.results[j] # response.results[k]
              /\ j < k => response.results[j].incident__date
                              >= response.results[k].incident__date

\* Two incidents of different dates are returned, the later first, and one of
\* them is linked by two Service_Issue rows.
C6_Witness ==
    /\ SearchRendered /\ Len(response.results) = 2
    /\ response.results[1].incident__date > response.results[2].incident__date
    /\ \E a, b \in Service_Issue : a # b /\ a.incident_id = b.incident_id

ReportMatches(id) ==
    /\ SubmittedStart <= Report[id].date
    /\ Report[id].date <= SubmittedEnd
    /\ Occurs(request.POST.text, Report[id].description)

(* C7: for a valid POST whose timezone resolves, rsearch renders
   search/rsearch_results.html with exactly the reports whose date is in the
   inclusive range [start, end] and whose description contains the text, in
   strictly descending id order; the submitted status changes nothing. *)
C7_ReportSearch ==
    (response.view = "rsearch" /\ ValidPost /\ ZoneIsKnown) =>
        /\ response.template = ReportResultsTemplate
        /\ response.raised = None
        /\ \A k \in DOMAIN response.results :
              LET row == response.results[k] IN
                  /\ row.id \in DOMAIN Report
                  /\ row.date = Report[row.id].date
                  /\ row.description = Report[row.id].description
        /\ {response.results[k].id : k \in DOMAIN response.results}
              = {id \in DOMAIN Report : ReportMatches(id)}
        /\ StrictlyDescendingIds

\* Status 'closed' is submitted; two reports are returned, a third is in the
\* range but lacks the text and a report dated at the start is among them.
C7_Witness ==
    /\ response.view = "rsearch" /\ response.template = ReportResultsTemplate
    /\ request.POST.status = "closed" /\ request.POST.text # <<>>
    /\ Len(response.results) = 2
    /\ \E k \in DOMAIN response.results : response.results[k].date = SubmittedStart
    /\ \E id \in DOMAIN Report :
          /\ SubmittedStart <= Report[id].date /\ Report[id].date <= SubmittedEnd
          /\ ~Occurs(request.POST.text, Report[id].description)

----------------------------------------------------------------------------
\* The outcomes of the view that handled the request, on a thread with the
\* given current timezone
OutcomesOn(zone) ==
    CASE response.view = "search" -> search_view(request, zone)
      [] response.view = "rsearch" -> rsearch_view(request, zone)
      [] response.view = "rsearch_recent" -> rsearch_recent_view(request, zone)

(* C8: the views are stateless: the outcome of a request (template, result
   rows, form, and the timezone current while the response is rendered) is
   an outcome the same request has on a thread that has handled nothing
   before.  (That no view writes to the store is StoreUntouched.) *)
C8_OutcomeIndependentOfHistory ==
    response.view # None =>
        response \in {o.response : o \in OutcomesOn(TIME_ZONE)}

\* C8, the part that holds: no step changes the tables.
StoreUntouched == [][UNCHANGED store]_vars

(* C9: with a 'timezone' cookie that names no known zone, a valid POST to
   search or rsearch and any request to rsearch_recent end in an unhandled
   error and render no template, while a GET or an invalid POST to search or
   rsearch renders the input form; no view recovers from anything else. *)
C9_UnknownZoneUnhandled ==
    (response.view # None /\ ~ZoneIsKnown) =>
        IF RecentHandled \/ ValidPost
        THEN /\ response.raised = "UnknownTimeZoneError"
             /\ response.template = None
             /\ response.results = <<>> /\ ~response.queried
        ELSE /\ response.raised = None
             /\ response.template = FormTemplateOf(response.view)

\* A valid POST to rsearch with an unknown zone raised.
C9_Witness ==
    /\ response.view = "rsearch" /\ ValidPost /\ request.COOKIES = "Mars/Olympus"
    /\ response.raised = "UnknownTimeZoneError" /\ response.template = None

(* C10: an incident is returned by search only if a Service_Issue row links
   it to a service: one with no such row is never returned, though its date
   is in range, its detail has the text and its state fits the status. *)
C10_OnlyLinkedIncidents ==
    SearchRendered =>
        \A k \in DOMAIN response.results :
            \E si \in Service_Issue : si.incident_id = response.results[k].incident_id

\* An incident in range, with the text and of the requested state, has no
\* Service_Issue row and is not returned, while a linked one is.
C10_Witness ==
    /\ SearchRendered /\ response.results # <<>>
    /\ \E i \in IncidentIds :
          ~Linked(i) /\ InRangeWithText(i) /\ StatusFits(i) /\ ~Returned(i)

====
